---- MODULE Spec2Model ----
(***************************************************************************)
(* Model of examples/server/app.py of the pidog robot server.              *)
(*                                                                         *)
(* Part 1, the behavior supervisor (class ExampleRunner) with the request  *)
(* handlers that drive it and the worker threads it launches.  Every       *)
(* statement of start() and stop() that reads or writes a field of the     *)
(* runner is one step, named by its source line.  A worker reads one field *)
(* of the runner, self.running, and writes none: one step of a worker is   *)
(* the statements up to and with its next read of self.running (the        *)
(* RobotHandle calls and sleeps before it touch no field of the runner).   *)
(* Time is not measured in this part: a worker may take any time over a    *)
(* step, so the 2 second join of stop() may run out before the worker      *)
(* ends.                                                                   *)
(*                                                                         *)
(* Part 2, the sensor loops of run_patrol, run_response and run_kids_play, *)
(* one iteration (tick) of the running behavior at a time, with the sensor *)
(* readings of the tick drawn from small sets and the clock advancing      *)
(* between ticks.                                                          *)
(*                                                                         *)
(* Part 3, the camera: generate_frames, CameraWrapper and the reader       *)
(* thread that cuts the byte stream of the capture subprocess into frames. *)
(* A byte is "FF", "D8", "D9" or "x" (any other byte); a bytes object is a *)
(* sequence of them, and None where a frame is expected is the empty       *)
(* sequence, which no frame is.                                            *)
(*                                                                         *)
(* Part 4, one call of ExampleRunner.sleep against a clock in hundredths   *)
(* of a second, with the flag cleared at any moment.                       *)
(*                                                                         *)
(* Part 5, the loop of run_ball_track, one iteration at a time, with yaw   *)
(* and pitch counted in steps of STEP (half a degree).                     *)
(***************************************************************************)
EXTENDS Integers, Sequences, FiniteSets, TLC

VARIABLES
    running,          \* ExampleRunner.running
    thread,           \* ExampleRunner.thread: 0 is None, else an index of workers
    current_example,  \* ExampleRunner.current_example: "None" or a name
    my_dog,           \* the module's my_dog: TRUE is a Pidog, FALSE is None
    workers,          \* every threading.Thread created so far, with its locals
    hpc,              \* each request handler's position
    hloc,             \* each request handler's locals
    hret,             \* each request handler's last response
    ncalls,           \* requests to /examples/run and /examples/stop received so far
    mock,             \* what the RobotHandle has been commanded to do
    beh,              \* Part 2: the behavior whose loop is followed tick by tick
    now,              \* Part 2: time.time(), in tenths of a second
    kp,               \* Part 2: the locals of run_kids_play
    tick,             \* Part 2: the locals of run_patrol and run_response
    backend,          \* Part 3: the camera backend this machine has
    feed,             \* Part 3: the bytes a capture subprocess writes before it exits
    camera_wrapper,   \* Part 3: the module's camera_wrapper: 0 is None, else an index of wrappers
    wrappers,         \* Part 3: every CameraWrapper constructed so far, with its reader thread
    vpc,              \* Part 3: each viewer's position in generate_frames
    got,              \* Part 3: the frame get_frame() returned to each viewer last
    sl,               \* Part 4: the locals of a call of ExampleRunner.sleep and the clock
    bt                \* Part 5: the locals of run_ball_track

\* The variables of Part 2, which Part 1 leaves alone.
tickv == <<beh, now, kp, tick>>

\* The variables of Part 1 that a behavior never writes.
supv == <<thread, current_example, my_dog, hpc, hloc, hret, ncalls, mock>>

\* The variables of Part 3, which Parts 1 and 2 leave alone.
camv == <<backend, feed, camera_wrapper, wrappers, vpc, got>>

\* The variables of Parts 1 and 2, which Part 3 leaves alone.
robv == <<running, workers, supv, tickv>>

\* The variables of Parts 4 and 5, which Parts 1, 2 and 3 leave alone.
loopv == <<sl, bt>>

vars == <<running, thread, current_example, my_dog, workers, hpc, hloc, hret, ncalls, mock,
          beh, now, kp, tick, backend, feed, camera_wrapper, wrappers, vpc, got, sl, bt>>

\* ------------------------------------------------------------------ bounds

\* Requests to /examples/run and /examples/stop the model lets the clients
\* send in one run; the other requests are not counted.
MaxCalls == 2

\* Threads the model lets start() create in one run: a request that would
\* create one more is not sent.
MaxThreads == 2

\* The request handler threads: requests are served one at a time.
Handlers == {1}

\* ------------------------------------------------------------- the registry

None == "None"

\* The names a client may send to /examples/run; the last is in the list of
\* /examples and contains none of the keywords start() looks for.
Names == {"3_patrol.py", "5_rest.py", "6_be_picked_up.py"}

\* kw in example_name, for the names above.
Contains(example_name, kw) ==
    \/ example_name = "3_patrol.py" /\ kw = "patrol"
    \/ example_name = "5_rest.py" /\ kw = "rest"

\* The if/elif chain of start(): the first keyword the name contains decides.
Resolve(example_name) ==
    IF Contains(example_name, "wake_up") THEN "run_wake_up"
    ELSE IF Contains(example_name, "patrol") THEN "run_patrol"
    ELSE IF Contains(example_name, "rest") THEN "run_rest"
    ELSE IF Contains(example_name, "pushup") THEN "run_pushup"
    ELSE IF Contains(example_name, "howling") THEN "run_howling"
    ELSE IF Contains(example_name, "balance") THEN "run_balance"
    ELSE IF Contains(example_name, "response") THEN "run_response"
    ELSE IF Contains(example_name, "ball_track") THEN "run_ball_track"
    ELSE IF Contains(example_name, "super_dog") THEN "run_super_dog"
    ELSE IF Contains(example_name, "kids_play") THEN "run_kids_play"
    ELSE None

\* ------------------------------------------------------------------ sensors

\* Raw readings of my_dog.read_distance(), in thousandths of a centimetre:
\* -1 (no echo), 0, 0.006, 5, 14.996.
Readings == {-1000, 0, 6, 5000, 14996}

\* round(x, 2) of a reading in thousandths, as hundredths: to the nearest
\* hundredth, a tie to the even one.
Round2(x) ==
    LET q == x \div 10
        r == x % 10
    IN IF r < 5 THEN q
       ELSE IF r > 5 THEN q + 1
       ELSE IF q % 2 = 0 THEN q ELSE q + 1

\* DANGER_DISTANCE of run_patrol, in hundredths of a centimetre.
DANGER_DISTANCE == 1500

\* The test of line 322 without its lower limit.
PatrolDangerNoFloor(distance) == distance < DANGER_DISTANCE

\* Line 322: distance > 0 and distance < DANGER_DISTANCE.
PatrolDanger(distance) == distance > 0 /\ distance < DANGER_DISTANCE

\* Line 332: distance < DANGER_DISTANCE (the flag is read before it).
PatrolHold(distance) == distance < DANGER_DISTANCE

\* ------------------------------------------------------ behavior programs

\* One statement of a behavior: what it does, the RobotHandle call it makes,
\* the statement that follows (nx), the statement a test that fails jumps to
\* (alt; 0 is the end of the function), and its source line.
\*   dog    if not my_dog: return
\*   cmd    a RobotHandle command
\*   query  a RobotHandle readiness query or sensor read whose value is unused
\*   sleep  self.sleep(...)
\*   check  a test of self.running (while self.running, if not self.running)
\*   read   distance = round(my_dog.read_distance(), 2)
\*   danger the test of line 322
\*   hold   the test of line 332
\*   quiet  the test of line 376
I(op, what, nx, alt, line) == [op |-> op, what |-> what, nx |-> nx, alt |-> alt, line |-> line]

run_patrol ==
    << I("dog",    "",                    2,  0, 314),
       I("cmd",    "do_action stand",     3,  0, 316),
       I("query",  "wait_all_done",       4,  0, 317),
       I("sleep",  "",                    5,  0, 318),
       I("check",  "",                    6,  0, 320),
       I("read",   "read_distance",       7,  0, 321),
       I("danger", "",                    8, 19, 322),
       I("cmd",    "body_stop",           9,  0, 324),
       I("query",  "head_current_angles", 10, 0, 325),
       I("cmd",    "set_mode bark",       11, 0, 326),
       I("cmd",    "tail_move",           12, 0, 327),
       I("cmd",    "legs_move",           13, 0, 328),
       I("query",  "wait_all_done",       14, 0, 329),
       I("sleep",  "",                    15, 0, 330),
       I("cmd",    "bark",                16, 0, 331),
       I("hold",   "",                    17, 23, 332),
       I("read",   "read_distance",       18, 0, 333),
       I("sleep",  "",                    16, 0, 334),
       I("cmd",    "set_mode breath",     20, 0, 336),
       I("cmd",    "do_action forward",   21, 0, 337),
       I("cmd",    "do_action shake_head", 22, 0, 338),
       I("cmd",    "do_action wag_tail",  23, 0, 339),
       I("sleep",  "",                    5,  0, 340) >>

run_rest ==
    << I("dog",    "",                    2,  0, 349),
       I("query",  "wait_all_done",       3,  0, 367),
       I("cmd",    "do_action lie",       4,  0, 368),
       I("query",  "wait_all_done",       5,  0, 369),
       I("check",  "",                    6,  0, 370),
       I("cmd",    "set_mode breath",     7,  0, 371),
       I("cmd",    "head_move",           8,  0, 372),
       I("cmd",    "do_action doze_off",  9,  0, 373),
       I("sleep",  "",                    10, 0, 374),
       I("query",  "is_sound",            11, 0, 375),
       I("quiet",  "",                    12, 14, 376),
       I("cmd",    "do_action doze_off",  13, 0, 377),
       I("sleep",  "",                    11, 0, 378),
       I("check",  "",                    15, 0, 379),
       I("cmd",    "set_mode boom",       16, 0, 380),
       I("cmd",    "body_stop",           17, 0, 381),
       I("sleep",  "",                    18, 0, 382),
       I("cmd",    "do_action stand",     19, 0, 383),
       I("cmd",    "head_move",           20, 0, 384),
       I("query",  "wait_all_done",       21, 0, 385),
       I("check",  "",                    22, 32, 351),
       I("cmd",    "head_move",           23, 0, 352),
       I("query",  "wait_all_done",       24, 0, 353),
       I("sleep",  "",                    25, 0, 354),
       I("check",  "",                    26, 32, 355),
       I("cmd",    "head_move",           27, 0, 356),
       I("query",  "wait_all_done",       28, 0, 357),
       I("sleep",  "",                    29, 0, 358),
       I("check",  "",                    30, 32, 359),
       I("cmd",    "head_move",           31, 0, 360),
       I("query",  "wait_all_done",       32, 0, 361),
       I("sleep",  "",                    33, 0, 387),
       I("cmd",    "speak",               34, 0, 388),
       I("cmd",    "do_action tilting_head_left", 35, 0, 389),
       I("query",  "wait_all_done",       36, 0, 390),
       I("sleep",  "",                    37, 0, 391),
       I("cmd",    "head_move",           38, 0, 392),
       I("query",  "wait_all_done",       39, 0, 393),
       I("sleep",  "",                    40, 0, 394),
       I("cmd",    "shake_head",          41, 0, 395),
       I("sleep",  "",                    42, 0, 396),
       I("cmd",    "set_mode breath",     43, 0, 397),
       I("cmd",    "do_action lie",       44, 0, 398),
       I("query",  "wait_all_done",       45, 0, 399),
       I("sleep",  "",                    5,  0, 400) >>

\* The function a Thread was given as its target.
Program(target) ==
    IF target = "run_patrol" THEN run_patrol ELSE run_rest

\* ------------------------------------------------------------------ workers

\* A threading.Thread(target=...) as constructed at line 248: st is "new"
\* until start(), "alive" until run() ends, then "done"; pc is the statement
\* the thread is at (0 once run() has returned); exc tells that run() ended in
\* the except clause of the behavior.
NewThread(target) ==
    [target |-> target, pc |-> 1, st |-> "new", exc |-> FALSE]

Workers == 1..Len(workers)

\* Thread.is_alive()
is_alive(w) == workers[w].st = "alive"

AliveWorkers == {w \in Workers : is_alive(w)}

\* The RobotHandle receives command what from src: a worker, 0 for stop(),
\* -1 for a direct-control handler.
Command(src, what) == [mock EXCEPT !.last = [src |-> src, what |-> what]]

\* The statements of prog from statement k up to and with the next one that
\* reads self.running (or to the end of the function), executed with local
\* distance; x is what read_distance() returns on the way and sound what
\* is_sound() returns.  The result is the statement reached, the last
\* command given on the way (cmd when none was) and local distance.
RECURSIVE Run(_, _, _, _, _, _)
Run(prog, k, distance, cmd, x, sound) ==
    IF k = 0 THEN [pc |-> 0, cmd |-> cmd, distance |-> distance]
    ELSE LET i == prog[k]
         IN IF i.op = "check"
            THEN [pc |-> IF running THEN i.nx ELSE i.alt, cmd |-> cmd, distance |-> distance]
            ELSE IF i.op = "hold"
            THEN [pc |-> IF running /\ PatrolHold(distance) THEN i.nx ELSE i.alt,
                  cmd |-> cmd, distance |-> distance]
            ELSE IF i.op = "quiet"
            THEN [pc |-> IF running /\ ~sound THEN i.nx ELSE i.alt, cmd |-> cmd, distance |-> distance]
            ELSE IF i.op = "dog"
            THEN Run(prog, IF my_dog THEN i.nx ELSE 0, distance, cmd, x, sound)
            ELSE IF i.op = "cmd"
            THEN Run(prog, i.nx, distance, i.what, x, sound)
            ELSE IF i.op = "read"
            THEN Run(prog, i.nx, Round2(x), cmd, x, sound)
            ELSE IF i.op = "danger"
            THEN Run(prog, IF PatrolDanger(distance) THEN i.nx ELSE i.alt, distance, cmd, x, sound)
            ELSE Run(prog, i.nx, distance, cmd, x, sound)

\* Worker w goes on at statement k; 0 ends run() and with it the thread.
Jump(w, k) ==
    [workers EXCEPT ![w].pc = k, ![w].st = IF k = 0 THEN "done" ELSE @]

\* Worker w executes its statements up to and with its next read of
\* self.running: commands, waits for the robot, sleeps and sensor reads, in
\* the time they take, then the test.
WRun(w) ==
    /\ is_alive(w)
    /\ \E r \in {[pc |-> o.pc, cmd |-> o.cmd] :
                    o \in {Run(Program(workers[w].target), workers[w].pc, 0, None, x, sound) :
                              x \in Readings, sound \in BOOLEAN}} :
          /\ workers' = Jump(w, r.pc)
          /\ mock' = IF r.cmd = None THEN mock ELSE Command(w, r.cmd)
    /\ UNCHANGED <<running, thread, current_example, my_dog, hpc, hloc, hret, ncalls, tickv, camv, loopv>>

\* A RobotHandle call of the statements ahead raises: the except clause of
\* the behavior (lines 341, 401) prints the error and run() returns.
WRaise(w) ==
    /\ is_alive(w)
    /\ workers' = [Jump(w, 0) EXCEPT ![w].exc = TRUE]
    /\ UNCHANGED <<running, thread, current_example, my_dog, hpc, hloc, hret, ncalls, mock, tickv, camv, loopv>>

WorkerStep(w) ==
    WRun(w) \/ WRaise(w)

\* ------------------------------------------------------- request handlers

Idle(h) == hpc[h] = "idle"

\* The locals of a handler that is serving no request.
NoLocals == [arg |-> None, caller |-> "api"]

\* Handler h takes a request, which counts for n, and goes to statement pc
\* of its code.
Receive(h, pc, arg, n) ==
    /\ Idle(h)
    /\ ncalls + n <= MaxCalls
    /\ ncalls' = ncalls + n
    /\ hpc' = [hpc EXCEPT ![h] = pc]
    /\ hloc' = [hloc EXCEPT ![h] = IF pc = "idle" THEN NoLocals
                                   ELSE [arg |-> arg, caller |-> "api"]]

\* Handler h returns response r.
Return(h, r) ==
    /\ hpc' = [hpc EXCEPT ![h] = "idle"]
    /\ hret' = [hret EXCEPT ![h] = r]
    /\ hloc' = [hloc EXCEPT ![h] = NoLocals]

Goto(h, pc) == hpc' = [hpc EXCEPT ![h] = pc]

\* POST /examples/run, lines 871-882, up to the call of start().
run_example(h, filename) ==
    /\ Resolve(filename) # None => Len(workers) < MaxThreads
    /\ Receive(h, IF filename = None \/ ~my_dog THEN "idle" ELSE "L219", filename, 1)
    /\ hret' = [hret EXCEPT ![h] = IF filename = None THEN "400 Filename required"
                                   ELSE IF ~my_dog THEN "500 Pidog not initialized"
                                   ELSE @]
    /\ UNCHANGED <<running, thread, current_example, my_dog, workers, mock, tickv, camv, loopv>>

\* POST /examples/stop, line 890: the call of stop().
stop_example(h) ==
    /\ Receive(h, "L256", None, 1)
    /\ UNCHANGED <<running, thread, current_example, my_dog, workers, hret, mock, tickv, camv, loopv>>

\* GET /status, lines 893-899.
status(h) ==
    /\ Receive(h, "idle", None, 0)
    /\ hret' = [hret EXCEPT ![h] = IF running THEN "200 running_example true"
                                   ELSE "200 running_example false"]
    /\ UNCHANGED <<running, thread, current_example, my_dog, workers, mock, tickv, camv, loopv>>

\* The direct-control requests: the endpoint and what it is asked to do.
Direct == {"action sit", "move sideways", "head"}

\* The RobotHandle call a direct-control request ends in: do_action(name) of
\* /action (line 925), nothing for a direction /move does not know (line
\* 953), head_move of /head (line 971).
DirectCall(req) ==
    IF req = "action sit" THEN "do_action sit"
    ELSE IF req = "head" THEN "head_move"
    ELSE None

\* POST /action, /move, /head: the tests that open each handler (lines
\* 903-907, 933-937, 959-963).
direct_check(h, req) ==
    /\ Receive(h, IF running \/ ~my_dog THEN "idle" ELSE "L913", req, 0)
    /\ hret' = [hret EXCEPT ![h] = IF running THEN "409 example is running"
                                   ELSE IF ~my_dog THEN "500 Pidog not initialized"
                                   ELSE @]
    /\ UNCHANGED <<running, thread, current_example, my_dog, workers, mock, tickv, camv, loopv>>

\* The RobotHandle call of a direct-control handler (lines 913-926, 943-953,
\* 970-972).
direct_command(h) ==
    /\ hpc[h] = "L913"
    /\ IF DirectCall(hloc[h].arg) = None
       THEN /\ Return(h, "400 Invalid direction")
            /\ UNCHANGED mock
       ELSE /\ Return(h, "200 ok")
            /\ mock' = Command(-1, DirectCall(hloc[h].arg))
    /\ UNCHANGED <<running, thread, current_example, my_dog, workers, ncalls, tickv, camv, loopv>>

\* ------------------------------------------------------ ExampleRunner.start

\* Lines 219-220: if self.running: self.stop()
Start219(h) ==
    /\ hpc[h] = "L219"
    /\ IF running
       THEN /\ Goto(h, "L256")
            /\ hloc' = [hloc EXCEPT ![h].caller = "start"]
       ELSE /\ Goto(h, "L222")
            /\ UNCHANGED hloc
    /\ UNCHANGED <<running, thread, current_example, my_dog, workers, hret, ncalls, mock, tickv, camv, loopv>>

\* Line 222: self.running = True
Start222(h) ==
    /\ hpc[h] = "L222"
    /\ running' = TRUE
    /\ Goto(h, "L223")
    /\ UNCHANGED <<thread, current_example, my_dog, workers, hloc, hret, ncalls, mock, tickv, camv, loopv>>

\* Lines 223-247: self.current_example = example_name, and the lookup of the
\* target, which reads only the argument.
Start223(h) ==
    /\ hpc[h] = "L223"
    /\ current_example' = hloc[h].arg
    /\ Goto(h, IF Resolve(hloc[h].arg) # None THEN "L248" ELSE "L252")
    /\ UNCHANGED <<running, thread, my_dog, workers, hloc, hret, ncalls, mock, tickv, camv, loopv>>

\* Line 248: self.thread = threading.Thread(target=target)
Start248(h) ==
    /\ hpc[h] = "L248"
    /\ workers' = Append(workers, NewThread(Resolve(hloc[h].arg)))
    /\ thread' = Len(workers) + 1
    /\ Goto(h, "L249")
    /\ UNCHANGED <<running, current_example, my_dog, hloc, hret, ncalls, mock, tickv, camv, loopv>>

\* Lines 249-250: self.thread.start(); return True, ...
\* start() of None or of a thread that was started before raises.
Start249(h) ==
    /\ hpc[h] = "L249"
    /\ IF thread # 0 /\ workers[thread].st = "new"
       THEN /\ workers' = [workers EXCEPT ![thread].st = "alive"]
            /\ Return(h, "200 Started")
       ELSE /\ Return(h, "500 error")
            /\ UNCHANGED workers
    /\ UNCHANGED <<running, thread, current_example, my_dog, ncalls, mock, tickv, camv, loopv>>

\* Lines 252-253: self.running = False; return False, ...
Start252(h) ==
    /\ hpc[h] = "L252"
    /\ running' = FALSE
    /\ Return(h, "400 Example not supported")
    /\ UNCHANGED <<thread, current_example, my_dog, workers, ncalls, mock, tickv, camv, loopv>>

\* ------------------------------------------------------- ExampleRunner.stop

\* Line 256: self.running = False
Stop256(h) ==
    /\ hpc[h] = "L256"
    /\ running' = FALSE
    /\ Goto(h, "L257")
    /\ UNCHANGED <<thread, current_example, my_dog, workers, hloc, hret, ncalls, mock, tickv, camv, loopv>>

\* Line 257: if self.thread and self.thread.is_alive():
Stop257(h) ==
    /\ hpc[h] = "L257"
    /\ Goto(h, IF thread # 0 /\ is_alive(thread) THEN "L258" ELSE "L259")
    /\ UNCHANGED <<running, thread, current_example, my_dog, workers, hloc, hret, ncalls, mock, tickv, camv, loopv>>

\* join() without its timeout: it returns only when the thread has ended.
JoinForever(t) == workers[t].st = "done"

\* join(timeout=2) returns when the thread has ended, or when 2 seconds have
\* passed, which they may at any moment the thread lets them.
JoinReturns(t) == workers[t].st = "done" \/ TRUE

\* Line 258: self.thread.join(timeout=2); join of None raises.
Stop258(h) ==
    /\ hpc[h] = "L258"
    /\ IF thread = 0
       THEN Return(h, "500 error")
       ELSE /\ JoinReturns(thread)
            /\ Goto(h, "L259")
            /\ UNCHANGED <<hloc, hret>>
    /\ UNCHANGED <<running, thread, current_example, my_dog, workers, ncalls, mock, tickv, camv, loopv>>

\* Line 259: self.thread = None
Stop259(h) ==
    /\ hpc[h] = "L259"
    /\ thread' = 0
    /\ Goto(h, "L260")
    /\ UNCHANGED <<running, current_example, my_dog, workers, hloc, hret, ncalls, mock, tickv, camv, loopv>>

\* stop() returns: to start() at line 222, or to the handler, which answers.
StopReturns(h) ==
    /\ IF hloc[h].caller = "start"
       THEN /\ Goto(h, "L222")
            /\ UNCHANGED <<hloc, hret>>
       ELSE Return(h, "200 Example stopped")

\* stop() without line 260: current_example keeps the name.
Stop260Keeps(h) ==
    /\ hpc[h] = "L260"
    /\ IF my_dog
       THEN /\ Goto(h, "L263")
            /\ UNCHANGED <<hloc, hret>>
       ELSE StopReturns(h)
    /\ UNCHANGED <<running, thread, current_example, my_dog, workers, ncalls, mock, tickv, camv, loopv>>

\* Lines 260-262: self.current_example = None; if my_dog:
Stop260(h) ==
    /\ hpc[h] = "L260"
    /\ current_example' = None
    /\ IF my_dog
       THEN /\ Goto(h, "L263")
            /\ UNCHANGED <<hloc, hret>>
       ELSE StopReturns(h)
    /\ UNCHANGED <<running, thread, my_dog, workers, ncalls, mock, tickv, camv, loopv>>

\* Line 263: my_dog.body_stop()
Stop263(h) ==
    /\ hpc[h] = "L263"
    /\ mock' = [Command(0, "body_stop") EXCEPT !.body_stops = @ + 1]
    /\ Goto(h, "L264")
    /\ UNCHANGED <<running, thread, current_example, my_dog, workers, hloc, hret, ncalls, tickv, camv, loopv>>

\* Lines 264-269: my_dog.head_move([[0, 0, 0]], immediately=True, speed=80);
\* Vilib.camera_close() inside try/except; return.
Stop264(h) ==
    /\ hpc[h] = "L264"
    /\ mock' = [Command(0, "head_move neutral") EXCEPT !.neutral_heads = @ + 1]
    /\ StopReturns(h)
    /\ UNCHANGED <<running, thread, current_example, my_dog, workers, ncalls, tickv, camv, loopv>>

\* ------------------------------------------------- Part 2: sensor loops

\* The clock runs up to MaxTime tenths of a second.
MaxTime == 85

\* time.time() when the loop is entered: the epoch clock is later than every
\* delay of the loop after 0 (2 seconds is the longest compared with it).
StartTime == 20 + 5

\* The time from one reading of the clock to the next: less than a tenth of
\* a second, or a second.
TickSteps == {0, 10}

\* What read_distance() returns to run_kids_play, in thousandths.
KidsReadings == {0, 5000, 14996}

\* my_dog.accData[0]: pushed up, at rest (gravity), falling.
Accel == {-25000, -16384, -5000}

\* my_dog.dual_touch.read()
Touches == {"N", "L"}

\* sound_dir: 0 when no sound is detected, else my_dog.ears.read().
Sounds == {0, 90}

\* len(my_dog.head_action_buffer)
HeadBuffer == {0, 2}

\* Thresholds of run_kids_play; DIST_THRESH in thousandths of a centimetre.
ACC_LIFT_THRESH == -20000

ACC_LAND_THRESH == -10000

DIST_THRESH == 10000

\* The locals of run_kids_play when its loop is entered (lines 711-718); the
\* locals a tick assigns first hold the values of a tick at rest.
KidsLocals ==
    [state |-> "SLEEP", state_timer |-> 0, last_doze_time |-> 0, last_sound_time |-> 0,
     upflag |-> FALSE, downflag |-> FALSE,
     current_time |-> 0, ax |-> -16384, touch |-> "N", distance |-> 0, sound_dir |-> 0,
     printed |-> << >>]

\* The locals of run_patrol (distance, in hundredths) and run_response (dist,
\* in thousandths, touch, the length of the head buffer), and the branch the
\* last tick took.
NoTick == [distance |-> 0, touch |-> "N", hbuf |-> 0, branch |-> None]

\* Lines 728-738: the clock and the sensors are read.
Poll(k, ct, ax, touch, distance, sound_dir) ==
    [k EXCEPT !.current_time = ct, !.ax = ax, !.touch = touch, !.distance = distance,
              !.sound_dir = sound_dir, !.printed = << >>]

\* Line 733.
is_touched(k) == k.touch # "N"

\* Lines 743-752 with the lift flag armed by a reading above the drop
\* threshold.
LiftOnDrop(k) ==
    IF k.ax > ACC_LAND_THRESH
    THEN [k EXCEPT !.upflag = TRUE,
                   !.state = IF k.downflag /\ k.state = "SUPERMAN" THEN "AWAKE" ELSE @,
                   !.printed = IF k.downflag /\ k.state = "SUPERMAN" THEN Append(@, "Landed!") ELSE @,
                   !.downflag = FALSE]
    ELSE k

\* Lines 743-752.
Lift(k) ==
    IF k.ax < ACC_LIFT_THRESH
    THEN [k EXCEPT !.upflag = TRUE,
                   !.state = IF k.downflag /\ k.state = "SUPERMAN" THEN "AWAKE" ELSE @,
                   !.printed = IF k.downflag /\ k.state = "SUPERMAN" THEN Append(@, "Landed!") ELSE @,
                   !.downflag = FALSE]
    ELSE k

\* Lines 754-765 with the drop flag armed and the state left as it is.
LandNoLatch(k) ==
    IF k.ax > ACC_LAND_THRESH
    THEN [k EXCEPT !.upflag = FALSE, !.downflag = TRUE]
    ELSE k

\* Lines 754-765.
Land(k) ==
    IF k.ax > ACC_LAND_THRESH
    THEN [k EXCEPT !.state = IF k.upflag THEN "SUPERMAN" ELSE @,
                   !.printed = IF k.upflag /\ k.state # "SUPERMAN" THEN Append(@, "Flying!") ELSE @,
                   !.upflag = FALSE,
                   !.downflag = TRUE]
    ELSE k

\* Lines 779-783: the interaction is over.
Timer(k) ==
    IF k.state = "INTERACTING" /\ k.current_time > k.state_timer
    THEN [k EXCEPT !.state = "AWAKE"]
    ELSE k

\* Lines 790-808.
Sleeping(k) ==
    LET d == IF k.current_time - k.last_doze_time > 2
             THEN [k EXCEPT !.last_doze_time = k.current_time]
             ELSE k
    IN IF is_touched(d)
       THEN [d EXCEPT !.printed = Append(@, "Waking up!"),
                      !.state = "INTERACTING",
                      !.state_timer = d.current_time + 50,
                      !.last_sound_time = d.current_time]
       ELSE d

\* The test of line 813 without its lower limit.
KidsProximityNoFloor(distance) == distance < DIST_THRESH

\* Line 813: distance > 1 and distance < DIST_THRESH.
KidsProximity(distance) == distance > 1000 /\ distance < DIST_THRESH

\* Lines 810-842 with the touch trigger tested ahead of the proximity
\* trigger.
AwakeTouchFirst(k) ==
    IF is_touched(k)
    THEN [k EXCEPT !.printed = Append(@, "Touched!"),
                   !.state = "INTERACTING",
                   !.state_timer = k.current_time + 20]
    ELSE IF KidsProximity(k.distance)
    THEN [k EXCEPT !.printed = Append(@, "Too close!"),
                   !.state = "INTERACTING",
                   !.state_timer = k.current_time + 25]
    ELSE IF k.sound_dir # 0 /\ k.current_time - k.last_sound_time > 20
    THEN [k EXCEPT !.printed = Append(@, "Sound at"),
                   !.last_sound_time = k.current_time,
                   !.state = "INTERACTING",
                   !.state_timer = k.current_time + 20]
    ELSE k

\* Line 834 with a cooldown that ends at 2 seconds.
SoundDueAtTwo(k) == k.sound_dir # 0 /\ k.current_time - k.last_sound_time >= 20

\* Line 834: the sound trigger.
SoundDue(k) == k.sound_dir # 0 /\ k.current_time - k.last_sound_time > 20

\* Lines 810-842.
Awake(k) ==
    IF KidsProximity(k.distance)
    THEN [k EXCEPT !.printed = Append(@, "Too close!"),
                   !.state = "INTERACTING",
                   !.state_timer = k.current_time + 25]
    ELSE IF is_touched(k)
    THEN [k EXCEPT !.printed = Append(@, "Touched!"),
                   !.state = "INTERACTING",
                   !.state_timer = k.current_time + 20]
    ELSE IF SoundDue(k)
    THEN [k EXCEPT !.printed = Append(@, "Sound at"),
                   !.last_sound_time = k.current_time,
                   !.state = "INTERACTING",
                   !.state_timer = k.current_time + 20]
    ELSE k

\* The body of the loop with the test of the interaction deadline (lines
\* 774-786) ahead of the superman detector.
kids_tick_timer_first(k) ==
    IF k.state = "INTERACTING" /\ ~(k.current_time > k.state_timer) THEN k
    ELSE LET a == Land(Lift(k))
         IN IF a.state = "SUPERMAN" THEN a
            ELSE LET b == Timer(a)
                 IN IF b.state = "SLEEP" THEN Sleeping(b)
                    ELSE IF b.state = "AWAKE" THEN Awake(b)
                    ELSE b

\* Lines 740-844: the body of the loop after the sensors are read; "continue"
\* at lines 770 and 786 ends it early.
kids_tick(k) ==
    LET a == Land(Lift(k))
    IN IF a.state = "SUPERMAN" THEN a
       ELSE IF a.state = "INTERACTING" /\ ~(a.current_time > a.state_timer) THEN a
       ELSE LET b == Timer(a)
            IN IF b.state = "SLEEP" THEN Sleeping(b)
               ELSE IF b.state = "AWAKE" THEN Awake(b)
               ELSE b

\* The behavior thread of Part 2.
Beh == 1

\* The messages the last tick printed.
Printed == {kp.printed[i] : i \in 1..Len(kp.printed)}

\* One iteration of the loop of run_kids_play (lines 727-844), d after the
\* iteration before it read the clock: at least the half second of line 807
\* when that one woke the robot up.
KidsTick ==
    /\ beh = "run_kids_play" /\ is_alive(Beh) /\ running
    /\ \E d \in TickSteps :
          /\ now + d <= MaxTime
          /\ "Waking up!" \in Printed => d > 0
          /\ now' = now + d
    /\ \E ax \in Accel, touch \in Touches, distance \in KidsReadings, sound_dir \in Sounds :
          kp' = kids_tick(Poll(kp, now', ax, touch, distance, sound_dir))
    /\ UNCHANGED <<running, workers, beh, tick, supv, camv, loopv>>

\* Line 516: dist < 15 and dist > 1.
ResponseAlert(dist) == dist < 15000 /\ dist > 1000

\* Lines 514-536: the branch an iteration of run_response takes.
response_branch(dist, touch, hbuf) ==
    IF ResponseAlert(dist) THEN "alert"
    ELSE IF touch # "N" THEN (IF hbuf < 2 THEN "relax" ELSE "relax full")
    ELSE "calm"

\* One iteration of the loop of run_response (lines 513-537).
ResponseTick ==
    /\ beh = "run_response" /\ is_alive(Beh) /\ running
    /\ \E dist \in Readings, touch \in Touches, hbuf \in HeadBuffer :
          tick' = [distance |-> dist, touch |-> touch, hbuf |-> hbuf,
                   branch |-> response_branch(dist, touch, hbuf)]
    /\ UNCHANGED <<running, workers, beh, now, kp, supv, camv, loopv>>

\* The branch of run_patrol that gave command cmd last (lines 331, 339).
patrol_branch(cmd) ==
    IF cmd = "bark" THEN "danger"
    ELSE IF cmd = "do_action wag_tail" THEN "advance"
    ELSE None

\* run_patrol up to and with its next read of self.running.
PatrolTick ==
    /\ beh = "run_patrol" /\ is_alive(Beh)
    /\ \E x \in Readings :
          LET r == Run(run_patrol, workers[Beh].pc, tick.distance, None, x, FALSE)
          IN /\ workers' = Jump(Beh, r.pc)
             /\ tick' = IF r.pc = 0 THEN NoTick
                        ELSE [tick EXCEPT !.distance = r.distance, !.branch = patrol_branch(r.cmd)]
    /\ UNCHANGED <<running, beh, now, kp, supv, camv, loopv>>

\* Lines 513, 727: while self.running fails and run() returns, which ends
\* the life of its locals.
LoopExit ==
    /\ beh \in {"run_response", "run_kids_play"} /\ is_alive(Beh) /\ ~running
    /\ workers' = Jump(Beh, 0)
    /\ kp' = KidsLocals
    /\ tick' = NoTick
    /\ UNCHANGED <<running, beh, now, supv, camv, loopv>>

\* Line 256, executed by a request handler while the behavior runs.
Cancel ==
    /\ running
    /\ running' = FALSE
    /\ UNCHANGED <<workers, beh, now, kp, tick, supv, camv, loopv>>

\* ------------------------------------------------------ Part 3: the camera

\* Captures the model lets a synchronous backend make.
MaxCaptures == 2

\* The clients of /video_feed and /mjpg, each running generate_frames.
Viewers == {1, 2}

\* None where a frame is expected.
NoFrame == << >>

\* b'\xff\xd8' and b'\xff\xd9'
SOI == <<"FF", "D8">>

EOI == <<"FF", "D9">>

\* Bytes without a marker: ahead of the stray end marker, inside the frame,
\* behind the frame.
Garbage == {<<"x">>, <<"x", "FF">>}

Payload == {<<"x">>}

More == {<<"x">>}

\* garbage FFD9 FFD8 <payload> FFD9 more
StrayStream(g, p, m) == g \o EOI \o SOI \o p \o EOI \o m

\* What the capture subprocess may write: a stream that begins inside a
\* frame, or two whole frames.
Streams ==
    {StrayStream(g, p, m) : g \in Garbage, p \in Payload, m \in More}
        \cup {SOI \o <<"x">> \o EOI \o SOI \o <<"x", "x">> \o EOI}

\* What PiCameraStream.get_frame() captures (lines 66-72).
Capture == SOI \o <<"x">> \o EOI

\* bytes.find(sub) for a marker of two bytes, counting from 1: 0 where
\* Python returns -1.
find(buf, sub) ==
    LET hits == {i \in 1..(Len(buf) - 1) : buf[i] = sub[1] /\ buf[i + 1] = sub[2]}
    IN IF hits = {} THEN 0 ELSE CHOOSE i \in hits : \A j \in hits : i <= j

\* CameraWrapper.__init__ (lines 107-129) on a machine with backend b:
\* stream is TRUE for a PiCameraStream, lib_stream for a LibCameraStream
\* whose process runs; thread is "none", "alive" or "done".  With it, the
\* locals of the reader thread: bytes_buffer, the bytes read so far (pos),
\* the frames published so far, and whether a read has raised.
CameraWrapper(b) ==
    [stream |-> b = "picamera", lib_stream |-> b = "libcamera",
     thread |-> IF b = "libcamera" THEN "alive" ELSE "none",
     latest_frame |-> NoFrame, bytes_buffer |-> << >>, pos |-> 0,
     published |-> 0, erred |-> FALSE, captures |-> 0]

\* The mode a wrapper is in.
Mode(c) ==
    IF c.stream THEN "synchronous" ELSE IF c.lib_stream THEN "stream" ELSE "disabled"

\* Lines 141-154 with the frame cut one byte short.
ExtractShort(c, chunk) ==
    LET buf == c.bytes_buffer \o chunk
        a == find(buf, SOI)
        b == find(buf, EOI)
    IN IF a # 0 /\ b # 0
       THEN IF a < b
            THEN [c EXCEPT !.latest_frame = SubSeq(buf, a, b),
                           !.bytes_buffer = SubSeq(buf, b + 2, Len(buf)),
                           !.published = @ + 1]
            ELSE [c EXCEPT !.bytes_buffer = SubSeq(buf, a, Len(buf))]
       ELSE [c EXCEPT !.bytes_buffer = buf]

\* Lines 141-154: the chunk is appended and the buffer searched once for the
\* two markers.
Extract(c, chunk) ==
    LET buf == c.bytes_buffer \o chunk
        a == find(buf, SOI)
        b == find(buf, EOI)
    IN IF a # 0 /\ b # 0
       THEN IF a < b
            THEN [c EXCEPT !.latest_frame = SubSeq(buf, a, b + 1),
                           !.bytes_buffer = SubSeq(buf, b + 2, Len(buf)),
                           !.published = @ + 1]
            ELSE [c EXCEPT !.bytes_buffer = SubSeq(buf, a, Len(buf))]
       ELSE [c EXCEPT !.bytes_buffer = buf]

\* The reader of wrapper w reads a chunk of n bytes (line 138) and searches
\* the buffer (lines 141-154).
ReadChunk(w) ==
    /\ wrappers[w].thread = "alive"
    /\ \E n \in 1..(Len(feed) - wrappers[w].pos) :
          wrappers' = [wrappers EXCEPT ![w] =
                          Extract([@ EXCEPT !.pos = @ + n],
                                  SubSeq(feed, wrappers[w].pos + 1, wrappers[w].pos + n))]
    /\ UNCHANGED <<backend, feed, camera_wrapper, vpc, got, robv, loopv>>

\* The subprocess has exited and all it wrote is read: read() returns b''
\* and line 140 leaves the loop.
ReadEnd(w) ==
    /\ wrappers[w].thread = "alive"
    /\ wrappers[w].pos = Len(feed)
    /\ wrappers' = [wrappers EXCEPT ![w].thread = "done"]
    /\ UNCHANGED <<backend, feed, camera_wrapper, vpc, got, robv, loopv>>

\* read() raises: lines 155-157 print the error and sleep, and the loop goes
\* on.
ReadError(w) ==
    /\ wrappers[w].thread = "alive"
    /\ wrappers' = [wrappers EXCEPT ![w].erred = TRUE]
    /\ UNCHANGED <<backend, feed, camera_wrapper, vpc, got, robv, loopv>>

\* CameraWrapper.get_frame() without the capture.
get_frame_latest(c) == c.latest_frame

\* CameraWrapper.get_frame() (lines 159-162).
get_frame(c) == IF c.stream THEN Capture ELSE c.latest_frame

\* A client asks for the video: generate_frames begins.
ViewRequest(v) ==
    /\ vpc[v] = "idle"
    /\ vpc' = [vpc EXCEPT ![v] = "L169"]
    /\ UNCHANGED <<backend, feed, camera_wrapper, wrappers, got, robv, loopv>>

\* Line 169: if camera_wrapper is None.
View169(v) ==
    /\ vpc[v] = "L169"
    /\ vpc' = [vpc EXCEPT ![v] = IF camera_wrapper = 0 THEN "L170" ELSE "L173"]
    /\ UNCHANGED <<backend, feed, camera_wrapper, wrappers, got, robv, loopv>>

\* Line 170: camera_wrapper = CameraWrapper().
View170(v) ==
    /\ vpc[v] = "L170"
    /\ wrappers' = Append(wrappers, CameraWrapper(backend))
    /\ camera_wrapper' = Len(wrappers) + 1
    /\ vpc' = [vpc EXCEPT ![v] = "L173"]
    /\ UNCHANGED <<backend, feed, got, robv, loopv>>

\* Line 173: frame = camera_wrapper.get_frame(), again and again.
View173(v) ==
    /\ vpc[v] = "L173"
    /\ LET c == wrappers[camera_wrapper]
       IN /\ c.stream => c.captures < MaxCaptures
          /\ got' = [got EXCEPT ![v] = get_frame(c)]
          /\ wrappers' = IF c.stream
                         THEN [wrappers EXCEPT ![camera_wrapper].captures = @ + 1]
                         ELSE wrappers
    /\ UNCHANGED <<backend, feed, camera_wrapper, vpc, robv, loopv>>

\* Before the first request for the video.
NoCamera ==
    /\ camera_wrapper = 0
    /\ wrappers = << >>
    /\ vpc = [v \in Viewers |-> "idle"]
    /\ got = [v \in Viewers |-> NoFrame]

\* -------------------------------------------- Part 4: ExampleRunner.sleep

\* The clock of Part 4 stops here.
MaxClock == 30

\* The durations sleep() is called with, in hundredths of a second:
\* sleep(0.01), sleep(0.02), sleep(0.1), sleep(0.2).
Durations == {1, 2, 10, 20}

\* Line 275: time.sleep(0.05), in hundredths of a second.
INCREMENT == 5

\* Before the call of sleep(): time is time.time(); t0 is the time of the
\* call, wake the time at which the time.sleep() under way ends, naps the
\* number of time.sleep() calls completed, ret the time of the return and
\* cleared the time at which self.running became False (-1: not yet).
NoSleep ==
    [pc |-> "idle", time |-> 0, t0 |-> 0, end_time |-> 0, wake |-> 0, naps |-> 0,
     ret |-> -1, cleared |-> -1]

\* Line 274 without the flag.
SleepOnDeaf(s) == s.time < s.end_time

\* Line 274: self.running and time.time() < end_time.
SleepOn(s) == running /\ s.time < s.end_time

\* Line 273: end_time = time.time() + duration.
Sleep273 ==
    /\ sl.pc = "idle"
    /\ \E duration \in Durations :
          /\ sl.time + duration + INCREMENT <= MaxClock
          /\ sl' = [sl EXCEPT !.pc = "L274", !.t0 = sl.time, !.end_time = sl.time + duration]
    /\ UNCHANGED <<bt, camv, robv>>

\* Line 274: the test of the loop.
Sleep274 ==
    /\ sl.pc = "L274"
    /\ sl' = IF SleepOn(sl)
             THEN [sl EXCEPT !.pc = "L275", !.wake = sl.time + INCREMENT]
             ELSE [sl EXCEPT !.pc = "returned", !.ret = sl.time]
    /\ UNCHANGED <<bt, camv, robv>>

\* Line 275: time.sleep(0.05) returns.
Sleep275 ==
    /\ sl.pc = "L275"
    /\ sl.time = sl.wake
    /\ sl' = [sl EXCEPT !.pc = "L274", !.naps = @ + 1]
    /\ UNCHANGED <<bt, camv, robv>>

\* A hundredth of a second passes, before the call or inside time.sleep();
\* the statements of lines 273 and 274 take no time.
SleepClock ==
    /\ sl.pc \in {"idle", "L275"}
    /\ sl.time < MaxClock
    /\ sl.pc = "L275" => sl.time < sl.wake
    /\ sl' = [sl EXCEPT !.time = @ + 1]
    /\ UNCHANGED <<bt, camv, robv>>

\* Line 256, executed by a request handler at any moment.
SleepCancel ==
    /\ running
    /\ running' = FALSE
    /\ sl' = [sl EXCEPT !.cleared = sl.time]
    /\ UNCHANGED <<bt, workers, supv, tickv, camv>>

\* ------------------------------------------------ Part 5: run_ball_track

\* Line 554: STEP = 0.5.  Angles are in tenths of a degree.
STEP == 5

\* The offsets of the blob from the centre of the frame (lines 564, 565): on
\* either side of the dead bands of 15 and 25 pixels, and inside them.
Offsets == {-100, 0, 100}

\* color_w (line 566): no blob, a blob, a blob as wide as the limit.
Widths == {0, 150, 300}

\* What is_legs_done() answers (line 586); the iteration that does not call
\* it has "unasked".
LegsDone == {"yes", "no"}

\* The locals of run_ball_track at the head of its loop (line 563), the
\* head command of line 557 given: the pair head is the yaw and the pitch
\* of the last head_move, loco the locomotion command of the last iteration,
\* width and legs what that iteration read ("unasked": is_legs_done() was
\* not called).
NoBall ==
    [pc |-> "L563", yaw |-> 0, pitch |-> 0, head |-> <<0, 0>>, loco |-> None,
     width |-> 0, legs |-> "unasked"]

\* Lines 568-571 without the limits of the yaw.
BallYawNoLimit(yaw, ball_x) ==
    IF ball_x > 15 THEN yaw - STEP
    ELSE IF ball_x < -15 THEN yaw + STEP
    ELSE yaw

\* Lines 568-571.
BallYaw(yaw, ball_x) ==
    IF ball_x > 15 /\ yaw > -800 THEN yaw - STEP
    ELSE IF ball_x < -15 /\ yaw < 800 THEN yaw + STEP
    ELSE yaw

\* Lines 573-578.
BallPitch(pitch, ball_y) ==
    IF ball_y > 25 THEN (IF pitch - STEP < -400 THEN -400 ELSE pitch - STEP)
    ELSE IF ball_y < -25 THEN (IF pitch + STEP > 200 THEN 200 ELSE pitch + STEP)
    ELSE pitch

\* Lines 587-592.
Steer(yaw) ==
    IF yaw < -300 THEN "turn_right"
    ELSE IF yaw > 300 THEN "turn_left"
    ELSE "forward"

\* Lines 585, 586 without the answer of is_legs_done().
MayWalkBusy(width, legs) == width # 0 /\ width < 300

\* Lines 585, 586: the blob is in sight, not too near, and the legs are done.
MayWalk(width, legs) == width # 0 /\ width < 300 /\ legs = "yes"

\* Lines 564-592: the body of the loop.
ball_tick(b, ball_x, ball_y, width, legs) ==
    LET yaw == BallYaw(b.yaw, ball_x)
        pitch == BallPitch(b.pitch, ball_y)
    IN [b EXCEPT !.head = <<yaw, pitch>>,
                 !.yaw = IF width = 0 THEN 0 ELSE yaw,
                 !.pitch = IF width = 0 THEN 0 ELSE pitch,
                 !.width = width,
                 !.legs = legs,
                 !.loco = IF MayWalk(width, legs) THEN Steer(yaw) ELSE None]

\* One iteration of the loop of run_ball_track (lines 563-593).
BallTick ==
    /\ bt.pc = "L563" /\ running
    /\ \E ball_x \in Offsets, ball_y \in Offsets, width \in Widths :
          \E legs \in (IF width # 0 /\ width < 300 THEN LegsDone ELSE {"unasked"}) :
              bt' = ball_tick(bt, ball_x, ball_y, width, legs)
    /\ UNCHANGED <<sl, camv, robv>>

\* Line 563: while self.running fails; line 600 closes the camera and
\* run() returns, which ends the life of its locals.
BallExit ==
    /\ bt.pc = "L563" /\ ~running
    /\ bt' = [NoBall EXCEPT !.pc = "done"]
    /\ UNCHANGED <<sl, camv, robv>>

\* ------------------------------------------------------------ specification

Init ==
    /\ running = FALSE
    /\ thread = 0
    /\ current_example = None
    /\ my_dog \in BOOLEAN
    /\ workers = << >>
    /\ hpc = [h \in Handlers |-> "idle"]
    /\ hloc = [h \in Handlers |-> NoLocals]
    /\ hret = [h \in Handlers |-> "none"]
    /\ ncalls = 0
    /\ mock = [last |-> [src |-> 0, what |-> "head_move neutral"], body_stops |-> 0, neutral_heads |-> 0]
    /\ beh = None
    /\ now = 0
    /\ kp = KidsLocals
    /\ tick = NoTick
    /\ backend = "none"
    /\ feed = << >>
    /\ NoCamera
    /\ sl = NoSleep
    /\ bt = NoBall

\* A client sends a request.
Request(h) ==
    \/ \E filename \in Names \cup {None} : run_example(h, filename)
    \/ stop_example(h)
    \/ status(h)
    \/ \E req \in Direct : direct_check(h, req)

\* A handler executes its next statement.
HandlerStep(h) ==
    \/ direct_command(h)
    \/ Start219(h) \/ Start222(h) \/ Start223(h) \/ Start248(h) \/ Start249(h) \/ Start252(h)
    \/ Stop256(h) \/ Stop257(h) \/ Stop258(h) \/ Stop259(h) \/ Stop260(h) \/ Stop263(h) \/ Stop264(h)

Next ==
    \/ \E h \in Handlers : Request(h)
    \/ \E h \in Handlers : HandlerStep(h)
    \/ \E w \in Workers : WorkerStep(w)

Spec == Init /\ [][Next]_vars

\* The handler threads are scheduled and the RobotHandle calls of stop()
\* return; nothing is assumed of the workers, which may block for ever.
SpecFair == Spec /\ \A h \in Handlers : WF_vars(HandlerStep(h))

\* The handler threads are scheduled, and so are the workers: every
\* RobotHandle call and every sleep of a behavior returns, so that a worker
\* reaches its next test of self.running.
SpecLive ==
    /\ Spec
    /\ \A h \in Handlers : WF_vars(HandlerStep(h))
    /\ \A w \in 1..MaxThreads : WF_vars(w \in Workers /\ WRun(w))

\* The file names that start the behaviors of Part 2.
TickNames ==
    [run_patrol |-> "3_patrol.py", run_response |-> "4_response.py", run_kids_play |-> "kids_play.py"]

\* Part 2 begins when start() has returned: the thread is alive, before the
\* first statement of run_patrol, at the loop of the other two.
InitTick ==
    /\ beh \in DOMAIN TickNames
    /\ running = TRUE
    /\ thread = Beh
    /\ current_example = TickNames[beh]
    /\ my_dog = TRUE
    /\ workers = << [NewThread(beh) EXCEPT !.st = "alive"] >>
    /\ hpc = [h \in Handlers |-> "idle"]
    /\ hloc = [h \in Handlers |-> NoLocals]
    /\ hret = [h \in Handlers |-> "200 Started"]
    /\ ncalls = 1
    /\ mock = [last |-> [src |-> 0, what |-> "head_move neutral"], body_stops |-> 0, neutral_heads |-> 0]
    /\ now = StartTime
    /\ kp = KidsLocals
    /\ tick = NoTick
    /\ backend = "none"
    /\ feed = << >>
    /\ NoCamera
    /\ sl = NoSleep
    /\ bt = NoBall

NextTick ==
    \/ KidsTick
    \/ ResponseTick
    \/ PatrolTick
    \/ LoopExit
    \/ Cancel

SpecTick == InitTick /\ [][NextTick]_vars

\* Part 3 begins with the server up, no behavior started and no video asked
\* for, on a machine with one of the backends or none.
InitCamera ==
    /\ running = FALSE
    /\ thread = 0
    /\ current_example = None
    /\ my_dog = TRUE
    /\ workers = << >>
    /\ hpc = [h \in Handlers |-> "idle"]
    /\ hloc = [h \in Handlers |-> NoLocals]
    /\ hret = [h \in Handlers |-> "none"]
    /\ ncalls = 0
    /\ mock = [last |-> [src |-> 0, what |-> "head_move neutral"], body_stops |-> 0, neutral_heads |-> 0]
    /\ beh = None
    /\ now = 0
    /\ kp = KidsLocals
    /\ tick = NoTick
    /\ backend \in {"picamera", "libcamera", "none"}
    /\ feed \in Streams
    /\ NoCamera
    /\ sl = NoSleep
    /\ bt = NoBall

NextCamera ==
    \/ \E v \in Viewers : ViewRequest(v) \/ View169(v) \/ View170(v) \/ View173(v)
    \/ \E w \in 1..Len(wrappers) : ReadChunk(w) \/ ReadEnd(w) \/ ReadError(w)

SpecCamera == InitCamera /\ [][NextCamera]_vars

\* Part 4 begins before a call of sleep(), the flag set or already cleared.
InitSleep ==
    /\ running \in BOOLEAN
    /\ thread = Beh
    /\ current_example = "3_patrol.py"
    /\ my_dog = TRUE
    /\ workers = << [NewThread("run_patrol") EXCEPT !.st = "alive"] >>
    /\ hpc = [h \in Handlers |-> "idle"]
    /\ hloc = [h \in Handlers |-> NoLocals]
    /\ hret = [h \in Handlers |-> "200 Started"]
    /\ ncalls = 1
    /\ mock = [last |-> [src |-> 0, what |-> "head_move neutral"], body_stops |-> 0, neutral_heads |-> 0]
    /\ beh = None
    /\ now = 0
    /\ kp = KidsLocals
    /\ tick = NoTick
    /\ backend = "none"
    /\ feed = << >>
    /\ NoCamera
    /\ sl = [NoSleep EXCEPT !.cleared = IF running THEN -1 ELSE 0]
    /\ bt = NoBall

NextSleep ==
    \/ Sleep273
    \/ Sleep274
    \/ Sleep275
    \/ SleepClock
    \/ SleepCancel

SpecSleep == InitSleep /\ [][NextSleep]_vars

\* Part 5 begins when run_ball_track reaches its loop.
InitBall ==
    /\ running = TRUE
    /\ thread = Beh
    /\ current_example = "13_ball_track.py"
    /\ my_dog = TRUE
    /\ workers = << [NewThread("run_ball_track") EXCEPT !.st = "alive"] >>
    /\ hpc = [h \in Handlers |-> "idle"]
    /\ hloc = [h \in Handlers |-> NoLocals]
    /\ hret = [h \in Handlers |-> "200 Started"]
    /\ ncalls = 1
    /\ mock = [last |-> [src |-> 0, what |-> "head_move neutral"], body_stops |-> 0, neutral_heads |-> 0]
    /\ beh = None
    /\ now = 0
    /\ kp = KidsLocals
    /\ tick = NoTick
    /\ backend = "none"
    /\ feed = << >>
    /\ NoCamera
    /\ sl = NoSleep
    /\ bt = NoBall

NextBall ==
    \/ BallTick
    \/ BallExit
    \/ Cancel

SpecBall == InitBall /\ [][NextBall]_vars

\* Two request-handler threads of the server (app.run serves each request in
\* a thread of its own): the first serves /examples/run, the second
\* /examples/stop, and their calls of start() and stop() may overlap.
Racers == {1, 2}

\* The server is up and no behavior was started.
InitRace ==
    /\ running = FALSE
    /\ thread = 0
    /\ current_example = None
    /\ my_dog = TRUE
    /\ workers = << >>
    /\ hpc = [h \in Racers |-> "idle"]
    /\ hloc = [h \in Racers |-> NoLocals]
    /\ hret = [h \in Racers |-> "none"]
    /\ ncalls = 0
    /\ mock = [last |-> [src |-> 0, what |-> "head_move neutral"], body_stops |-> 0, neutral_heads |-> 0]
    /\ beh = None
    /\ now = 0
    /\ kp = KidsLocals
    /\ tick = NoTick
    /\ backend = "none"
    /\ feed = << >>
    /\ NoCamera
    /\ sl = NoSleep
    /\ bt = NoBall

\* A statement of start() or stop() executed by handler h.
RaceStep(h) ==
    \/ Start219(h) \/ Start222(h) \/ Start223(h) \/ Start248(h) \/ Start249(h) \/ Start252(h)
    \/ Stop256(h) \/ Stop257(h) \/ Stop258(h) \/ Stop259(h) \/ Stop260(h) \/ Stop263(h) \/ Stop264(h)

NextRace ==
    \/ \E filename \in Names : run_example(1, filename)
    \/ stop_example(2)
    \/ \E h \in Racers : RaceStep(h)
    \/ \E w \in Workers : WorkerStep(w)

SpecRace == InitRace /\ [][NextRace]_vars

\* ------------------------------------------------------------------- claims

\* No request is being served.
Between == \A h \in Handlers : Idle(h)

\* The statements of stop() after line 256.
AfterClear == {"L257", "L258", "L259", "L260", "L263", "L264"}

InStop(h) == hpc[h] \in {"L256"} \cup AfterClear

NeutralHead == [src |-> 0, what |-> "head_move neutral"]

\* C1: at most one behavior worker thread is alive at any instant, for every
\* sequence of start() and stop() calls and every timing of the worker.
C1_AtMostOneWorkerAlive == Cardinality(AliveWorkers) <= 1

\* C2: between calls, running == False implies current_example is None.
C2_IdleHasNoExample == (Between /\ ~running) => current_example = None

\* C3: a direct-control request that arrives while a worker thread is alive
\* is rejected: no handler of /action, /move or /head gets past its test of
\* the running flag, to its RobotHandle call, while a worker is alive.
C3_NoDirectControlWhileOwned == \A h \in Handlers : hpc[h] = "L913" => AliveWorkers = {}

\* C4: when the behavior recorded in self.thread has ended in its except
\* clause, running is False without a call of stop().
C4_FaultResetsRunning ==
    \A w \in Workers :
        (Between /\ thread = w /\ workers[w].st = "done" /\ workers[w].exc) => ~running

\* The first two requests were start("patrol") and then start("rest"): the
\* second is being served or has been.
PatrolThenRest ==
    /\ ncalls = 2
    /\ Len(workers) >= 1
    /\ workers[1].target = "run_patrol"
    /\ \/ \E h \in Handlers : ~Idle(h) /\ hloc[h].arg = "5_rest.py"
       \/ Len(workers) = 2 /\ workers[2].target = "run_rest"

\* C5: start("patrol") then start("rest") gives exactly one teardown of the
\* patrol worker (body_stop, then the neutral head_move); no command of the
\* patrol worker follows the body_stop and every command of the rest worker
\* follows the head_move.
C5_OneTeardownBetween ==
    PatrolThenRest =>
        /\ mock.body_stops <= 1 /\ mock.neutral_heads <= 1
        /\ Len(workers) = 2 => mock.body_stops = 1 /\ mock.neutral_heads = 1
        /\ mock.body_stops >= 1 => mock.last.src # 1
        /\ mock.last.src = 2 => mock.neutral_heads = 1

\* C6: stop() clears the flag before it waits and before its commands; when
\* it has returned, running is False, thread and current_example are None,
\* and its neutral head_move is the last command the RobotHandle was given:
\* the stopped behavior gives none after it.
C6_StopLeavesNeutralLast ==
    /\ \A h \in Handlers : hpc[h] \in AfterClear => ~running
    /\ \A h \in Handlers :
          (Between /\ hret[h] = "200 Example stopped") =>
              /\ <<running, thread, current_example>> = <<FALSE, 0, None>>
              /\ my_dog => mock.last = NeutralHead

C8_UnknownLeavesIdle ==
    \A h \in Handlers :
        (Between /\ hret[h] = "400 Example not supported") =>
            <<running, thread, current_example>> = <<FALSE, 0, None>>

\* C9: stop() always terminates: a handler inside stop() leaves it, also when
\* the worker never ends.
C9_StopTerminates == \A h \in Handlers : InStop(h) ~> ~InStop(h)

\* stop() has given up waiting: it is past its join and the worker it waited
\* for is still alive.
C9_Witness ==
    /\ hpc[1] = "L259"
    /\ thread # 0
    /\ is_alive(thread)

\* C10: a distance reading of exactly 0 never triggers a proximity-based
\* transition.  After an iteration whose reading was 0, run_patrol has not
\* taken the danger branch, run_response has not taken the alert branch, and
\* run_kids_play has not printed "Too close!", the first statement of its
\* proximity trigger, whatever state the reading was taken in.
C10_ZeroNeverTriggers ==
    /\ (beh = "run_patrol" /\ tick.distance = 0) => tick.branch # "danger"
    /\ (beh = "run_response" /\ tick.distance = 0) => tick.branch # "alert"
    /\ (beh = "run_kids_play" /\ kp.distance = 0) => "Too close!" \notin Printed

\* run_kids_play has read 0 in an iteration that ran the triggers of AWAKE
\* (it ends in AWAKE without a landing), with no touch and no sound at hand:
\* a reading in range would have fired there.
C10_Witness ==
    /\ beh = "run_kids_play" /\ is_alive(Beh)
    /\ kp.current_time >= StartTime
    /\ kp.distance = 0 /\ kp.touch = "N" /\ kp.sound_dir = 0
    /\ kp.state = "AWAKE" /\ Printed = {}

\* An iteration of run_kids_play takes place in this step.
KidsStep ==
    /\ beh = "run_kids_play" /\ running /\ is_alive(Beh)
    /\ <<kp, now>>' # <<kp, now>>

\* C11: from AWAKE with both hysteresis flags clear, an iteration with the
\* acceleration below ACC_LIFT_THRESH followed by one with it above
\* ACC_LAND_THRESH moves the state to SUPERMAN, clears the lift flag and arms
\* the drop flag.  The first iteration arms the lift flag, leaves the drop
\* flag clear and ends in AWAKE or, a trigger of AWAKE having fired, in
\* INTERACTING; the second, from whatever the first left, ends in SUPERMAN
\* with the lift flag clear and the drop flag armed.
C11_LiftThenDropIsSuperman ==
    [][/\ (/\ KidsStep
            /\ kp.state = "AWAKE" /\ ~kp.upflag /\ ~kp.downflag
            /\ kp'.ax < ACC_LIFT_THRESH)
           => (kp'.upflag /\ ~kp'.downflag /\ kp'.state \in {"AWAKE", "INTERACTING"})
       /\ (/\ KidsStep
            /\ kp.ax < ACC_LIFT_THRESH /\ kp.upflag /\ ~kp.downflag
            /\ kp.state \in {"AWAKE", "INTERACTING"}
            /\ kp'.ax > ACC_LAND_THRESH)
           => (kp'.state = "SUPERMAN" /\ ~kp'.upflag /\ kp'.downflag)]_vars

\* The second iteration of such a pair has acted: with the acceleration
\* above ACC_LAND_THRESH it has printed "Flying!", the state is SUPERMAN, the
\* lift flag is clear and the drop flag armed, and the proximity trigger of
\* AWAKE fired at this reading of the clock (state_timer), so that the state
\* was AWAKE a moment before the pair.
C11_Witness ==
    /\ beh = "run_kids_play" /\ is_alive(Beh)
    /\ kp.ax > ACC_LAND_THRESH
    /\ kp.printed = <<"Flying!">>
    /\ kp.state = "SUPERMAN" /\ ~kp.upflag /\ kp.downflag
    /\ kp.state_timer = kp.current_time + 25

\* C12: once the state is SUPERMAN it stays SUPERMAN on every following
\* iteration, whatever the touch, distance and sound readings, until an
\* iteration with the acceleration below ACC_LIFT_THRESH while the drop flag
\* is armed; that iteration ends with the state AWAKE (not SLEEP, not
\* INTERACTING) and the drop flag clear.
C12_SupermanLatchedUntilLanding ==
    [][(KidsStep /\ kp.state = "SUPERMAN") =>
          IF kp'.ax < ACC_LIFT_THRESH /\ kp.downflag
          THEN kp'.state = "AWAKE" /\ ~kp'.downflag
          ELSE kp'.state = "SUPERMAN"]_vars

\* C13: the superman detector is evaluated first on every iteration and
\* preempts every other state: with the lift flag armed, an acceleration
\* above ACC_LAND_THRESH ends the iteration in SUPERMAN, from SLEEP, AWAKE
\* and INTERACTING alike, before the interaction deadline too; and an
\* iteration that ends in SUPERMAN has run no touch, proximity, sound, doze
\* or timer logic: it printed nothing but "Flying!" and left state_timer,
\* last_sound_time and last_doze_time as they were.
C13_SupermanPreempts ==
    [][KidsStep =>
          /\ (kp.upflag /\ kp'.ax > ACC_LAND_THRESH) => kp'.state = "SUPERMAN"
          /\ kp'.state = "SUPERMAN" =>
                 /\ kp'.printed \in {<< >>, <<"Flying!">>}
                 /\ kp'.state_timer = kp.state_timer
                 /\ kp'.last_sound_time = kp.last_sound_time
                 /\ kp'.last_doze_time = kp.last_doze_time]_vars

\* The detector has preempted an interaction: "Flying!" was printed on an
\* iteration before the deadline of an interaction, with a touch and a
\* distance in range at hand that set nothing off.
C13_Witness ==
    /\ beh = "run_kids_play" /\ is_alive(Beh)
    /\ kp.state = "SUPERMAN" /\ kp.printed = <<"Flying!">>
    /\ kp.current_time < kp.state_timer
    /\ kp.touch = "L" /\ KidsProximity(kp.distance)

\* C14: while the state is INTERACTING and the clock has not passed
\* state_timer, no trigger changes the state or the deadline and only the
\* superman detector leaves INTERACTING; the first iteration with the clock
\* past state_timer ends with the state back at AWAKE (or, the detector
\* having priority, at SUPERMAN).
C14_InteractingBlocksThenAwake ==
    [][(KidsStep /\ kp.state = "INTERACTING") =>
          IF kp'.current_time > kp.state_timer
          THEN kp'.state \in {"AWAKE", "SUPERMAN"}
          ELSE /\ kp'.state \in {"INTERACTING", "SUPERMAN"}
               /\ kp'.state_timer = kp.state_timer]_vars

\* C15: in AWAKE at most one trigger fires per iteration, in the priority
\* proximity > touch > sound.  An iteration that starts in AWAKE and is not
\* preempted by the superman detector prints at most one message; with the
\* distance in range it takes the proximity response (deadline now + 2.5)
\* whatever touch and sound read, and with the distance out of range and a
\* touch it takes the touch response (deadline now + 2) whatever sound reads;
\* neither moves last_sound_time.
C15_AwakePriority ==
    [][(KidsStep /\ kp.state = "AWAKE" /\ kp'.state # "SUPERMAN") =>
          /\ Len(kp'.printed) <= 1
          /\ KidsProximity(kp'.distance) =>
                 /\ kp'.printed = <<"Too close!">>
                 /\ kp'.state = "INTERACTING"
                 /\ kp'.state_timer = kp'.current_time + 25
                 /\ kp'.last_sound_time = kp.last_sound_time
          /\ (~KidsProximity(kp'.distance) /\ kp'.touch # "N") =>
                 /\ kp'.printed = <<"Touched!">>
                 /\ kp'.state = "INTERACTING"
                 /\ kp'.state_timer = kp'.current_time + 20
                 /\ kp'.last_sound_time = kp.last_sound_time]_vars

\* The proximity response was chosen with all three triggers present: the
\* distance in range, a touch, and a sound past its cooldown.
C15_Witness ==
    /\ beh = "run_kids_play" /\ is_alive(Beh)
    /\ kp.printed = <<"Too close!">>
    /\ kp.state = "INTERACTING" /\ kp.state_timer = kp.current_time + 25
    /\ kp.touch = "L" /\ SoundDue(kp)

\* C16: any two sound-triggered transitions are more than 2 seconds apart.
\* last_sound_time never goes back, the sound trigger fires only more than 2
\* seconds after last_sound_time and sets it to the time it fires at: so a
\* sound transition is more than 2 seconds after the one before it, whatever
\* wake-up, deadline or lift and landing lies between them.
C16_SoundCooldown ==
    [][KidsStep =>
          /\ kp'.last_sound_time >= kp.last_sound_time
          /\ "Sound at" \in {kp'.printed[i] : i \in 1..Len(kp'.printed)} =>
                 /\ kp'.current_time - kp.last_sound_time > 20
                 /\ kp'.last_sound_time = kp'.current_time]_vars

\* A second sound event within the cooldown gave no transition: the state is
\* AWAKE, a sound is detected with nothing else at hand, 1 second after
\* last_sound_time, and the iteration printed nothing.
C16_Witness ==
    /\ beh = "run_kids_play" /\ is_alive(Beh)
    /\ kp.state = "AWAKE" /\ kp.printed = << >>
    /\ kp.sound_dir # 0 /\ kp.touch = "N" /\ ~KidsProximity(kp.distance)
    /\ kp.current_time = kp.last_sound_time + 10
    /\ kp.state_timer = kp.last_sound_time + 20

\* C17: from SLEEP only touch wakes the robot: an iteration that starts in
\* SLEEP and ends in another state read a touch.
C17_OnlyTouchLeavesSleep ==
    [][(KidsStep /\ kp.state = "SLEEP" /\ kp'.state # "SLEEP") => kp'.touch # "N"]_vars

\* A complete frame cut from stream: it starts with the start marker, ends
\* with the end marker and is a contiguous range of stream.
CompleteFrame(f, stream) ==
    /\ Len(f) >= 4
    /\ SubSeq(f, 1, 2) = SOI
    /\ SubSeq(f, Len(f) - 1, Len(f)) = EOI
    /\ \E i \in 1..Len(stream) :
          i + Len(f) - 1 <= Len(stream) /\ SubSeq(stream, i, i + Len(f) - 1) = f

\* C18: fed garbage FFD9 FFD8 <payload> FFD9 more in any split into chunks
\* and then end-of-stream, the reader has published exactly one frame, equal
\* to FFD8 <payload> FFD9, and has dropped the bytes ahead of the FFD8: when
\* its thread has ended, only what followed the frame is left in the buffer.
C18_StrayEndThenOneFrame ==
    \A g \in Garbage, p \in Payload, m \in More :
        feed = StrayStream(g, p, m) =>
            \A w \in 1..Len(wrappers) :
                wrappers[w].thread = "done" =>
                    /\ wrappers[w].published = 1
                    /\ wrappers[w].latest_frame = SOI \o p \o EOI
                    /\ wrappers[w].bytes_buffer = m

\* C19: in stream mode latest_frame is at every instant None or a complete
\* frame of the bytes read so far, and so is what get_frame() has returned
\* to any viewer; latest_frame changes only in a step in which the reader
\* thread of its wrapper reads a chunk.
C19_FrameIsComplete ==
    /\ [](\A w \in 1..Len(wrappers) :
            Mode(wrappers[w]) = "stream" =>
                /\ \/ wrappers[w].latest_frame = NoFrame
                   \/ CompleteFrame(wrappers[w].latest_frame,
                                    SubSeq(feed, 1, wrappers[w].pos))
                /\ \A v \in Viewers :
                      got[v] = NoFrame \/ CompleteFrame(got[v], feed))
    /\ [][\A w \in 1..Len(wrappers) :
             wrappers'[w].latest_frame # wrappers[w].latest_frame =>
                 /\ wrappers[w].thread = "alive"
                 /\ wrappers'[w].pos > wrappers[w].pos]_vars

\* A viewer holds a frame it got in stream mode while the reader, still
\* alive, has bytes of a later frame in its buffer.
C19_Witness ==
    /\ camera_wrapper # 0
    /\ Mode(wrappers[camera_wrapper]) = "stream"
    /\ wrappers[camera_wrapper].thread = "alive"
    /\ wrappers[camera_wrapper].bytes_buffer # << >>
    /\ \E v \in Viewers : got[v] # NoFrame /\ got[v] = wrappers[camera_wrapper].latest_frame

\* C20: get_frame() follows the mode.  Disabled: no reader thread, no frame,
\* and every call returns None.  Stream: a call returns latest_frame, None
\* before the first frame is published.  Synchronous: no reader thread
\* exists, nothing is published, and each call makes a capture and returns
\* it.
C20_GetFrameFollowsMode ==
    /\ [](\A w \in 1..Len(wrappers) :
            /\ Mode(wrappers[w]) = "disabled" =>
                   /\ wrappers[w].thread = "none" /\ wrappers[w].latest_frame = NoFrame
                   /\ \A v \in Viewers : got[v] = NoFrame
            /\ Mode(wrappers[w]) = "synchronous" =>
                   /\ wrappers[w].thread = "none" /\ wrappers[w].latest_frame = NoFrame
                   /\ \A v \in Viewers : got[v] \in {NoFrame, Capture}
            /\ Mode(wrappers[w]) = "stream" =>
                   /\ wrappers[w].thread # "none" /\ wrappers[w].captures = 0
                   /\ wrappers[w].published = 0 => wrappers[w].latest_frame = NoFrame)
    /\ [][/\ \A v \in Viewers :
               got'[v] # got[v] =>
                   /\ vpc[v] = "L173"
                   /\ got'[v] = IF Mode(wrappers[camera_wrapper]) = "synchronous"
                                THEN Capture
                                ELSE wrappers[camera_wrapper].latest_frame
          /\ \A w \in 1..Len(wrappers) :
               wrappers'[w].captures # wrappers[w].captures =>
                   /\ Mode(wrappers[w]) = "synchronous" /\ w = camera_wrapper
                   /\ wrappers'[w].captures = wrappers[w].captures + 1
                   /\ \E v \in Viewers : vpc[v] = "L173" /\ got'[v] = Capture]_vars

\* In stream mode get_frame() returned None to viewer 1 before the first
\* frame was published, and the published frame to viewer 2 after it.
C20_Witness ==
    /\ camera_wrapper # 0
    /\ Mode(wrappers[camera_wrapper]) = "stream"
    /\ wrappers[camera_wrapper].published = 1
    /\ vpc[1] = "L173" /\ got[1] = NoFrame
    /\ got[2] # NoFrame /\ got[2] = wrappers[camera_wrapper].latest_frame

\* C21: the camera backend is chosen once, at the first frame request, and
\* never again: at most one CameraWrapper is ever constructed, at most one
\* reader thread is ever started, and camera_wrapper, once set, keeps its
\* value, also when two viewers make their first request at the same time.
C21_OneBackendOneReader ==
    /\ [](/\ Len(wrappers) <= 1
          /\ Cardinality({w \in 1..Len(wrappers) : wrappers[w].thread # "none"}) <= 1)
    /\ [][camera_wrapper # 0 => camera_wrapper' = camera_wrapper]_vars

\* C22: once a read has returned nothing or has raised, the reader has
\* stopped: it reads no further byte and publishes no further frame.
C22_ReaderStopsOnEndOrError ==
    [][\A w \in 1..Len(wrappers) :
          (wrappers[w].thread = "done" \/ wrappers[w].erred) =>
              /\ wrappers'[w].pos = wrappers[w].pos
              /\ wrappers'[w].published = wrappers[w].published
              /\ wrappers'[w].latest_frame = wrappers[w].latest_frame]_vars

\* A start marker with an end marker behind it: buf holds a complete frame.
HoldsFrame(buf) ==
    \E i \in 1..(Len(buf) - 1), j \in 1..(Len(buf) - 1) :
        /\ i + 2 <= j
        /\ SubSeq(buf, i, i + 1) = SOI
        /\ SubSeq(buf, j, j + 1) = EOI

\* C29: between two reads the buffer of the reader holds no complete frame,
\* whatever the split of the stream into chunks.
C29_NoFrameLeftInBuffer ==
    \A w \in 1..Len(wrappers) : ~HoldsFrame(wrappers[w].bytes_buffer)

\* C28: SUPERMAN is entered only through two opposite crossings.  The state
\* becomes SUPERMAN only in an iteration whose acceleration is above
\* ACC_LAND_THRESH and only with the lift flag armed by an earlier
\* iteration; the lift flag is armed only by an iteration whose acceleration
\* is below ACC_LIFT_THRESH, is clear when the behavior starts, and is clear
\* again after every entry, so that each entry needs a lift of its own.
C28_SupermanNeedsLiftThenDrop ==
    /\ []((beh = "run_kids_play" /\ kp = KidsLocals) => ~kp.upflag)
    /\ [][KidsStep =>
             /\ (kp.state # "SUPERMAN" /\ kp'.state = "SUPERMAN") =>
                    /\ kp'.ax > ACC_LAND_THRESH
                    /\ kp.upflag
                    /\ ~kp'.upflag
             /\ (~kp.upflag /\ kp'.upflag) => kp'.ax < ACC_LIFT_THRESH
             /\ kp'.upflag => ~(kp'.ax > ACC_LAND_THRESH)]_vars

\* SUPERMAN entered straight from SLEEP: the robot was never woken (no
\* deadline and no sound time were ever set), an earlier iteration armed the
\* lift flag and this one, with the acceleration above ACC_LAND_THRESH,
\* printed "Flying!".
C28_Witness ==
    /\ beh = "run_kids_play" /\ is_alive(Beh) /\ running
    /\ kp.state = "SUPERMAN" /\ kp.printed = <<"Flying!">>
    /\ kp.ax > ACC_LAND_THRESH
    /\ kp.state_timer = 0 /\ kp.last_sound_time = 0
    /\ ~kp.upflag /\ kp.downflag

\* run_patrol, its worker at statement k, executes up to its next read of
\* self.running.
PatrolStep(k) ==
    /\ beh = "run_patrol" /\ is_alive(Beh)
    /\ workers[Beh].pc = k
    /\ workers' # workers \/ tick' # tick

\* C25: the iteration of run_patrol that reads the rounded distance d takes
\* the danger branch when 0 < d < DANGER_DISTANCE and the advancing branch
\* on every other reading.  In the danger branch the robot holds: each
\* further reading gives no command, and the hold goes on unless the reading
\* is DANGER_DISTANCE or more or the behavior is cancelled; the hold is left
\* towards the head of the loop without a command.
C25_DangerExactlyBelowLimit ==
    [][/\ (PatrolStep(6) /\ workers'[Beh].pc # 0) =>
              /\ \E x \in Readings : tick'.distance = Round2(x)
              /\ (tick'.distance > 0 /\ tick'.distance < DANGER_DISTANCE) =>
                     /\ tick'.branch = "danger"
                     /\ workers'[Beh].pc = IF running THEN 17 ELSE 23
              /\ ~(tick'.distance > 0 /\ tick'.distance < DANGER_DISTANCE) =>
                     /\ tick'.branch = "advance"
                     /\ workers'[Beh].pc = 6
       /\ PatrolStep(17) =>
              /\ tick'.branch = None
              /\ \/ workers'[Beh].pc = 17
                 \/ workers'[Beh].pc = 23 /\ (tick'.distance >= DANGER_DISTANCE \/ ~running)
       /\ PatrolStep(23) =>
              /\ tick'.branch = None
              /\ workers'[Beh].pc \in {0, 6}
              /\ tick.distance >= DANGER_DISTANCE \/ ~running]_vars

\* The robot holds on a reading that is not above 0: the danger branch was
\* entered on an earlier one, and the hold is not left towards 'forward'.
C25_Witness ==
    /\ beh = "run_patrol" /\ is_alive(Beh) /\ running
    /\ workers[Beh].pc = 17
    /\ tick.distance <= 0 /\ tick.branch = None

BallStep ==
    /\ bt.pc = "L563" /\ bt'.pc = "L563"
    /\ running /\ running'

\* C26: an iteration of run_ball_track gives a locomotion command (forward,
\* turn_left or turn_right) only if it read a blob width w with 0 < w < 300
\* and is_legs_done() answered true in it; an iteration that read w = 0
\* gives none and leaves yaw and pitch at 0.
C26_WalkOnlyOnBlobAndIdleLegs ==
    /\ bt.loco \in {None, "forward", "turn_left", "turn_right"}
    /\ bt.loco # None => (bt.width > 0 /\ bt.width < 300 /\ bt.legs = "yes")
    /\ bt.width = 0 => (bt.loco = None /\ bt.yaw = 0 /\ bt.pitch = 0)

\* The robot was told to turn left: the blob is in sight, the legs were
\* done, and the head has been turned more than 30 degrees.
C26_Witness ==
    /\ bt.pc = "L563"
    /\ bt.loco = "turn_left"
    /\ bt.width = 150 /\ bt.legs = "yes"
    /\ bt.yaw > 300

\* C27: every head command of run_ball_track has its yaw in [-80, 80] and
\* its pitch in [-40, 20]; the yaw and the pitch of the command of an
\* iteration are at most STEP from the yaw and pitch the iteration began
\* with, and they are the values the iteration ends with unless it read a
\* width of 0 and reset both to 0.
C27_HeadWithinLimitsStepByStep ==
    /\ [](/\ bt.head[1] >= -800 /\ bt.head[1] <= 800
          /\ bt.head[2] >= -400 /\ bt.head[2] <= 200)
    /\ [][BallStep =>
             /\ bt'.head[1] - bt.yaw \in {-STEP, 0, STEP}
             /\ bt'.head[2] - bt.pitch \in {-STEP, 0, STEP}
             /\ \/ bt'.yaw = bt'.head[1] /\ bt'.pitch = bt'.head[2]
                \/ bt'.width = 0 /\ bt'.yaw = 0 /\ bt'.pitch = 0]_vars

\* The head was commanded to the limit of its yaw and of its pitch, and
\* the blob was lost in that iteration: yaw and pitch are back at 0.
C27_Witness ==
    /\ bt.pc = "L563"
    /\ bt.head = <<800, -400>>
    /\ bt.width = 0
    /\ bt.yaw = 0 /\ bt.pitch = 0

\* C24: a worker that is alive when the running flag is cleared eventually
\* exits, every RobotHandle call returning, also when a new start() follows
\* the stop().
C24_ClearedWorkerExits ==
    \A w \in 1..MaxThreads :
        (w \in Workers /\ is_alive(w) /\ ~running) ~> (w \in Workers /\ ~is_alive(w))

\* C30: start() and stop() executed by two handler threads, in any
\* interleaving, leave the supervisor consistent: when a start() and a
\* stop() have both returned, a worker that is alive finds running True and
\* is the thread the runner refers to.
C30_ConcurrentCallsConsistent ==
    (hret[1] # "none" /\ hret[2] # "none" /\ \A h \in Racers : Idle(h)) =>
        \A w \in AliveWorkers : running /\ thread = w

====
